---- MODULE Spec2Model ----
(***************************************************************************)
(* RBSH Studio backend: admin authentication (login, lockout, session      *)
(* tokens), job postings, job applications and contact leads.              *)
(*                                                                         *)
(* Time is counted in whole hours (clock).  Every request handler is one   *)
(* action; the response it sends is left in resp.  Environment steps       *)
(* (the passing of time, a change made directly in the database) set resp  *)
(* to Idle, so resp always describes the step that was just taken.         *)
(***************************************************************************)
EXTENDS Integers, Sequences, FiniteSets, TLC

VARIABLES
    clock,      \* Date.now(), in hours
    admins,     \* Admin collection: account id -> document
    failTimes,  \* history: per account, times of the latest consecutive failed logins
    wallet,     \* session tokens held by clients (cookie or bearer value)
    jobs,       \* Job collection: job id -> document
    usedJobs,   \* job ids ever handed out (an ObjectId is never reused)
    apps,       \* Application collection: set of documents
    nextApp,    \* number of Application documents ever created
    contacts,   \* Contact collection: set of documents
    nextContact,\* number of Contact documents ever created
    outbox,     \* mails handed to transporter.sendMail, in order
    inflight,   \* per request slot, the handler suspended at an await
    resp        \* the response of the request just handled

vars == <<clock, admins, failTimes, wallet, jobs, usedJobs, apps, nextApp,
          contacts, nextContact, outbox, inflight, resp>>

authVars == <<admins, failTimes, wallet>>
jobVars == <<jobs, usedJobs, apps, nextApp>>
contactVars == <<contacts, nextContact>>

----------------------------------------------------------------------------
(* Bounds of the model *)

MaxTime == 3        \* last hour reached under Spec
MaxLongTime == 26   \* last hour reached under SpecToken and SpecContact
MaxWallet == 1      \* tokens the clients hold at once
MaxApps == 2        \* Application documents ever created
MaxContacts == 2    \* Contact documents ever created
MaxReviewTime == 1  \* last hour reached under SpecReview
MaxAdmins == 2      \* AdminAccounts in the store

(* Program constants *)

TokenTTL == 24        \* jwt.sign expiresIn: '24h'
ContactWindow == 24   \* 24 * 60 * 60 * 1000 ms
MaxLoginAttempts == 5 \* failed logins that lock the account
LockTime == 2         \* hours an account stays locked

NoTime == 0 - 1
NoValue == "none"

----------------------------------------------------------------------------
(* Admin accounts *)

Usernames == {"admin", "ghost"}
Passwords == {"admin123", "wrong", ""}

hash(password) == <<"bcrypt", password>>

DefaultAdmin ==
    [username |-> "admin", email |-> "admin@rbshstudio.com",
     password |-> hash("admin123"), role |-> "super-admin",
     isActive |-> TRUE, failedAttempts |-> 0, lockedUntil |-> NoTime]

NoAdmin ==
    [username |-> NoValue, email |-> NoValue, password |-> hash(NoValue),
     role |-> NoValue, isActive |-> FALSE, failedAttempts |-> 0,
     lockedUntil |-> NoTime]

NoToken == [id |-> NoValue, username |-> NoValue, role |-> NoValue,
            iat |-> NoTime, exp |-> NoTime]

Idle == [op |-> "idle"]

\* the requests that can be in flight together, and a slot with no request
Slots == {"r1", "r2"}
IdleReq == [pc |-> "idle"]

\* Admin.findOne({ username }): the id of the account, or NoValue
findOne(username) ==
    IF \E id \in DOMAIN admins : admins[id].username = username
    THEN CHOOSE id \in DOMAIN admins : admins[id].username = username
    ELSE NoValue

\* Admin.findById(id)
findById(id) == IF id \in DOMAIN admins THEN admins[id] ELSE NoAdmin

\* admin.isLocked: a lockout timestamp in the future
isLocked(admin) == admin.lockedUntil # NoTime /\ admin.lockedUntil > clock

\* admin.comparePassword(candidate)
comparePassword(admin, candidate) == hash(candidate) = admin.password

\* admin.incLoginAttempts(): count the failure; on reaching the threshold lock
\* the account and start the count again
incLoginAttempts(admin) ==
    IF admin.failedAttempts + 1 >= MaxLoginAttempts
    THEN [admin EXCEPT !.failedAttempts = 0, !.lockedUntil = clock + LockTime]
    ELSE [admin EXCEPT !.failedAttempts = admin.failedAttempts + 1]

\* admin.resetLoginAttempts(): clear the counter and the lockout
resetLoginAttempts(admin) ==
    [admin EXCEPT !.failedAttempts = 0, !.lockedUntil = NoTime]

\* jwt.sign({ id, username, role }, secret, { expiresIn: '24h' })
jwtSign(id, username, role) ==
    [id |-> id, username |-> username, role |-> role,
     iat |-> clock, exp |-> clock + TokenTTL]

\* jwtVerify reading the payload without checking the expiry (jwt.decode)
jwtVerifyNoExpiry(token) == token # NoToken

\* jwt.verify(token, secret): every token of the model carries a good
\* signature; it is refused from its expiry time on
jwtVerify(token) == token # NoToken /\ clock < token.exp

\* the client keeps the token it is handed while it has room for it
keep(token) ==
    IF Cardinality(wallet) < MaxWallet THEN wallet \cup {token} ELSE wallet

\* history: the latest MaxLoginAttempts failed logins of the account
noteFailure(id) ==
    LET s == Append(failTimes[id], clock)
    IN  [failTimes EXCEPT ![id] =
            IF Len(s) > MaxLoginAttempts THEN Tail(s) ELSE s]

loginResp(op, username, password, code, error, token, before) ==
    [op |-> op, username |-> username, password |-> password, code |-> code,
     error |-> error, token |-> token, before |-> before]

\* loginOutcome without the lockout check
loginOutcomeNoLockCheck(username, password) ==
    LET id == findOne(username)
        admin == findById(id)
    IN  IF username = "" \/ password = "" THEN "invalid"
        ELSE IF id = NoValue THEN "unknown"
        ELSE IF ~admin.isActive THEN "deactivated"
        ELSE IF ~comparePassword(admin, password) THEN "mismatch"
        ELSE "ok"

\* loginOutcome without the isActive check
loginOutcomeNoActiveCheck(username, password) ==
    LET id == findOne(username)
        admin == findById(id)
    IN  IF username = "" \/ password = "" THEN "invalid"
        ELSE IF id = NoValue THEN "unknown"
        ELSE IF isLocked(admin) THEN "locked"
        ELSE IF ~comparePassword(admin, password) THEN "mismatch"
        ELSE "ok"

\* loginOutcome with the unknown username folded into the isActive check
loginOutcomeUnknownAsDeactivated(username, password) ==
    LET id == findOne(username)
        admin == findById(id)
    IN  IF username = "" \/ password = "" THEN "invalid"
        ELSE IF isLocked(admin) THEN "locked"
        ELSE IF id = NoValue \/ ~admin.isActive THEN "deactivated"
        ELSE IF ~comparePassword(admin, password) THEN "mismatch"
        ELSE "ok"

\* the checks of the login handler, in the order the handler makes them
loginOutcome(username, password) ==
    LET id == findOne(username)
        admin == findById(id)
    IN  IF username = "" \/ password = "" THEN "invalid"
        ELSE IF id = NoValue THEN "unknown"
        ELSE IF isLocked(admin) THEN "locked"
        ELSE IF ~admin.isActive THEN "deactivated"
        ELSE IF ~comparePassword(admin, password) THEN "mismatch"
        ELSE "ok"

\* afterMismatch counting the failure twice
afterMismatchTwice(id) ==
    [admins EXCEPT ![id] = incLoginAttempts(incLoginAttempts(admins[id]))]

\* await admin.incLoginAttempts() on a failed password check
afterMismatch(id) == [admins EXCEPT ![id] = incLoginAttempts(admins[id])]

\* afterMatch with the call of resetLoginAttempts left out
afterMatchNoReset(id) == admins

\* await admin.resetLoginAttempts() on a successful password check
afterMatch(id) == [admins EXCEPT ![id] = resetLoginAttempts(admins[id])]

\* the login handler, shared text of POST /api/admin/login and POST /api/auth/login
login(op, username, password) ==
    LET id == findOne(username)
        admin == findById(id)
        token == jwtSign(id, admin.username, admin.role)
        outcome == loginOutcome(username, password)
        reply(code, error, tok) ==
            loginResp(op, username, password, code, error, tok, admin)
    IN
    /\ UNCHANGED <<clock, inflight, jobVars, contactVars, outbox>>
    /\ CASE outcome = "invalid" ->
              /\ resp' = reply(400, "Validation failed", NoToken)
              /\ UNCHANGED authVars
         [] outcome = "unknown" ->
              /\ resp' = reply(401, "Invalid credentials", NoToken)
              /\ UNCHANGED authVars
         [] outcome = "locked" ->
              /\ resp' = reply(423, "Account is temporarily locked", NoToken)
              /\ UNCHANGED authVars
         [] outcome = "deactivated" ->
              /\ resp' = reply(401, "Account is deactivated", NoToken)
              /\ UNCHANGED authVars
         [] outcome = "mismatch" ->
              /\ admins' = afterMismatch(id)
              /\ failTimes' = noteFailure(id)
              /\ resp' = reply(401, "Invalid credentials", NoToken)
              /\ UNCHANGED wallet
         [] outcome = "ok" ->
              /\ admins' = afterMatch(id)
              /\ failTimes' = [failTimes EXCEPT ![id] = <<>>]
              /\ wallet' = keep(token)
              /\ resp' = reply(200, "", token)

\* POST /api/admin/login
AdminLogin(username, password) == login("admin-login", username, password)

\* POST /api/auth/login
AuthLogin(username, password) == login("auth-login", username, password)

\* POST /api/test-login
TestLogin(username, password) ==
    LET token == jwtSign("test-admin", "admin", "admin")
    IN
    /\ UNCHANGED <<clock, inflight, admins, failTimes, jobVars, contactVars, outbox>>
    /\ IF username = "admin" /\ password = "admin123"
       THEN /\ wallet' = keep(token)
            /\ resp' = loginResp("test-login", username, password, 200, "", token, NoAdmin)
       ELSE /\ resp' = loginResp("test-login", username, password, 401, "Invalid test credentials", NoToken, NoAdmin)
            /\ UNCHANGED wallet

\* POST /api/admin/logout, POST /api/auth/logout, DELETE /api/auth: the cookie is cleared
Logout(token) ==
    /\ token \in wallet
    /\ wallet' = wallet \ {token}
    /\ resp' = [op |-> "logout", code |-> 200]
    /\ UNCHANGED <<clock, inflight, admins, failTimes, jobVars, contactVars, outbox>>

verifyResp(op, token, code, authenticated) ==
    [op |-> op, token |-> token, code |-> code, authenticated |-> authenticated]

\* AuthCheck without the isActive check on the re-fetched account
AuthCheckNoActiveCheck(token) ==
    LET admin == findById(token.id)
        ok == jwtVerify(token) /\ admin # NoAdmin
    IN
    /\ resp' = verifyResp("auth-check", token, 200, ok)
    /\ UNCHANGED <<clock, inflight, authVars, jobVars, contactVars, outbox>>

\* GET /api/auth: authentication status of the presented token
AuthCheck(token) ==
    LET admin == findById(token.id)
        ok == jwtVerify(token) /\ admin # NoAdmin /\ admin.isActive
    IN
    /\ resp' = verifyResp("auth-check", token, 200, ok)
    /\ UNCHANGED <<clock, inflight, authVars, jobVars, contactVars, outbox>>

\* middleware auth: the account a request acts as, or NoAdmin when refused
auth(token) ==
    LET admin == findById(token.id)
    IN  IF jwtVerify(token) /\ admin # NoAdmin /\ admin.isActive
        THEN admin ELSE NoAdmin

\* GET /api/admin/verify
AdminVerify(token) ==
    /\ resp' = IF auth(token) = NoAdmin
               THEN verifyResp("admin-verify", token, 401, FALSE)
               ELSE verifyResp("admin-verify", token, 200, TRUE)
    /\ UNCHANGED <<clock, inflight, authVars, jobVars, contactVars, outbox>>

\* the isActive flag of an account is changed directly in the store
SetActive(id, flag) ==
    /\ id \in DOMAIN admins
    /\ admins[id].isActive # flag
    /\ admins' = [admins EXCEPT ![id].isActive = flag]
    /\ resp' = Idle
    /\ UNCHANGED <<clock, inflight, failTimes, wallet, jobVars, contactVars, outbox>>

\* an hour passes
Tick(limit) ==
    /\ clock < limit
    /\ clock' = clock + 1
    /\ resp' = Idle
    /\ UNCHANGED <<authVars, jobVars, contactVars, outbox, inflight>>

\* body('email').isEmail().normalizeEmail() and the schema's lowercase: true
normalizeEmail(email) ==
    CASE email = "A@x.com" -> "a@x.com"
      [] email = "Ghost@x.com" -> "ghost@x.com"
      [] OTHER -> email

\* ids given to the accounts created after the default one, in order
NewAdminIds == <<"a2", "a3", "a4">>

\* request bodies of POST /api/admin/create; role may be absent
CreateBodies ==
    [username : {"admin", "ghost", "guest"},
     email : {"admin@rbshstudio.com", "ghost@x.com", "Ghost@x.com", "guest@x.com"},
     password : {"admin123", "short"},
     role : {NoValue, "admin", "super-admin"}]

\* adminValidation, validate: the password has at least six characters (the
\* usernames and e-mail addresses of CreateBodies all pass)
adminValidation(body) == body.password # "short"

\* Admin.findOne({ $or: [{ username }, { email }] })
existingAdmin(username, email) ==
    \E id \in DOMAIN admins :
        admins[id].username = username \/ admins[id].email = email

\* new Admin({ username, email, password, role }), role = 'admin' by default
newAdmin(body) ==
    [username |-> body.username, email |-> normalizeEmail(body.email),
     password |-> hash(body.password),
     role |-> IF body.role = NoValue THEN "admin" ELSE body.role,
     isActive |-> TRUE, failedAttempts |-> 0, lockedUntil |-> NoTime]

createResp(token, body, code, error, created) ==
    [op |-> "create-admin", token |-> token, body |-> body, code |-> code,
     error |-> error, created |-> created]

\* createOutcome without the check of the requester's role
createOutcomeNoRoleCheck(token, body) ==
    IF auth(token) = NoAdmin THEN "denied"
    ELSE IF ~adminValidation(body) THEN "invalid"
    ELSE IF existingAdmin(body.username, normalizeEmail(body.email)) THEN "duplicate"
    ELSE "ok"

\* createOutcome looking for the e-mail address as the client wrote it
createOutcomeRawEmail(token, body) ==
    IF auth(token) = NoAdmin THEN "denied"
    ELSE IF ~adminValidation(body) THEN "invalid"
    ELSE IF auth(token).role # "super-admin" THEN "forbidden"
    ELSE IF existingAdmin(body.username, body.email) THEN "duplicate"
    ELSE "ok"

\* the checks of POST /api/admin/create, in the order the route makes them
createOutcome(token, body) ==
    IF auth(token) = NoAdmin THEN "denied"
    ELSE IF ~adminValidation(body) THEN "invalid"
    ELSE IF auth(token).role # "super-admin" THEN "forbidden"
    ELSE IF existingAdmin(body.username, normalizeEmail(body.email)) THEN "duplicate"
    ELSE "ok"

\* POST /api/admin/create
CreateAdmin(token, body) ==
    LET outcome == createOutcome(token, body)
        id == NewAdminIds[Cardinality(DOMAIN admins)]
    IN
    /\ UNCHANGED <<clock, inflight, wallet, jobVars, contactVars, outbox>>
    /\ CASE outcome = "denied" ->
              /\ resp' = createResp(token, body, 401, "Access denied", NoValue)
              /\ UNCHANGED <<admins, failTimes>>
         [] outcome = "invalid" ->
              /\ resp' = createResp(token, body, 400, "Validation failed", NoValue)
              /\ UNCHANGED <<admins, failTimes>>
         [] outcome = "forbidden" ->
              /\ resp' = createResp(token, body, 403,
                                    "Only super-admin can create new admin accounts", NoValue)
              /\ UNCHANGED <<admins, failTimes>>
         [] outcome = "duplicate" ->
              /\ resp' = createResp(token, body, 400,
                                    "Admin with this username or email already exists", NoValue)
              /\ UNCHANGED <<admins, failTimes>>
         [] outcome = "ok" ->
              /\ Cardinality(DOMAIN admins) < MaxAdmins
              /\ admins' = [a \in DOMAIN admins \cup {id} |->
                               IF a = id THEN newAdmin(body) ELSE admins[a]]
              /\ failTimes' = [a \in DOMAIN admins \cup {id} |->
                                  IF a = id THEN <<>> ELSE failTimes[a]]
              /\ resp' = createResp(token, body, 201, "", id)

\* request field email of PUT /api/admin/profile
ProfileEmails == {"ghost@x.com", "Ghost@x.com", "guest@x.com"}

\* the unique index on email: another account holds the address
emailTaken(id, email) ==
    \E o \in DOMAIN admins \ {id} : admins[o].email = email

profileResp(token, email, code, error) ==
    [op |-> "update-profile", token |-> token, email |-> email,
     code |-> code, error |-> error]

\* PUT /api/admin/profile carrying an email and no new password
UpdateProfile(token, email) ==
    LET stored == normalizeEmail(email)
    IN
    /\ UNCHANGED <<clock, inflight, failTimes, wallet, jobVars, contactVars, outbox>>
    /\ IF auth(token) = NoAdmin
       THEN /\ resp' = profileResp(token, email, 401, "Access denied")
            /\ UNCHANGED admins
       ELSE IF emailTaken(token.id, stored)
       THEN /\ resp' = profileResp(token, email, 400, "Email already exists")
            /\ UNCHANGED admins
       ELSE /\ admins' = [admins EXCEPT ![token.id].email = stored]
            /\ resp' = profileResp(token, email, 200, "")

\* the two programs that run the bootstrap step
BootKinds == {"server-start", "seed"}

\* Admin.findOne({ username: 'admin' }) finds nothing, read with no check
bootstrapNeededAlways == TRUE

\* Admin.findOne({ username: 'admin' }) finds nothing
bootstrapNeeded == findOne("admin") = NoValue

bootResp(kind, created) == [op |-> "bootstrap", kind |-> kind, created |-> created]

\* createDefaultAdmin at server start-up; seedData of the seed script, which
\* also inserts the sample postings when there is no posting
Bootstrap(kind) ==
    LET id == IF "a1" \in DOMAIN admins
              THEN NewAdminIds[Cardinality(DOMAIN admins)] ELSE "a1"
        seeds == kind = "seed" /\ DOMAIN jobs = {}
    IN
    /\ UNCHANGED <<clock, inflight, wallet, apps, nextApp, contactVars, outbox>>
    /\ IF bootstrapNeeded
       THEN /\ Cardinality(DOMAIN admins) < MaxAdmins
            /\ admins' = [a \in DOMAIN admins \cup {id} |->
                             IF a = id THEN DefaultAdmin ELSE admins[a]]
            /\ failTimes' = [a \in DOMAIN admins \cup {id} |->
                                IF a = id THEN <<>> ELSE failTimes[a]]
       ELSE UNCHANGED <<admins, failTimes>>
    /\ jobs' = IF seeds
               THEN [j \in {"j1"} |-> [status |-> "active", createdBy |-> "admin"]]
               ELSE jobs
    /\ usedJobs' = IF seeds THEN usedJobs \cup {"j1"} ELSE usedJobs
    /\ resp' = bootResp(kind, bootstrapNeeded)

----------------------------------------------------------------------------
(* Mail *)

\* createTransporter(): the handlers' helper calls nodemailer.createTransporter,
\* which nodemailer does not export (it exports createTransport), so the call
\* throws a TypeError inside the handler's try block
createTransporter == [threw |-> TRUE]

\* try { const transporter = createTransporter(); ...; await transporter.sendMail(mail) }
\* catch (emailError) { console.error(...) }
trySendMail(box, mail) ==
    IF createTransporter.threw THEN box ELSE Append(box, mail)

OperatorAddress == "ADMIN_EMAIL"

\* afterMail answering 500 when a notification could not be handed over
afterMailRethrow(code, attempts, mails) == IF mails < attempts THEN 500 ELSE code

\* catch (emailError) { console.error(...) }: a failed notification is logged
\* and the handler goes on to its reply
afterMail(code, attempts, mails) == code

----------------------------------------------------------------------------
(* Job postings and applications *)

JobIds == {"j1", "j2"}
MalformedId == "not-an-id"
JobStatuses == {"active", "inactive", "closed"}
AppStatuses == {"pending", "reviewing", "shortlisted", "rejected", "hired"}
RawEmails == {"a@x.com", "A@x.com", "b@x.com"}

\* request bodies of POST /api/applications: the job id, the e-mail address,
\* whether the other validated fields pass, and a status field the client may add
AppBodies ==
    [jobId : JobIds \cup {MalformedId}, email : RawEmails,
     fields : {"ok", "bad"}, status : {NoValue, "hired", "bogus"}]

\* applicationValidation, validate
applicationValidation(body) == body.jobId # MalformedId /\ body.fields = "ok"

\* Application.findOne({ jobId, email })
existingApplication(jobId, email) ==
    \E a \in apps : a.jobId = jobId /\ a.email = email

\* existingApplication matching the e-mail address alone
existingApplicationAnyJob(jobId, email) == \E a \in apps : a.email = email

\* new Application(req.body): schema defaults and the fields of the body
newApplication(body) ==
    [id |-> nextApp + 1, jobId |-> body.jobId,
     email |-> normalizeEmail(body.email),
     status |-> IF body.status = NoValue THEN "pending" ELSE body.status,
     notes |-> NoValue, reviewedBy |-> NoValue, reviewedAt |-> NoTime]

\* submitOutcome without the check of the job's status
submitOutcomeNoStatusCheck(body) ==
    IF ~applicationValidation(body) THEN "invalid"
    ELSE IF body.jobId \notin DOMAIN jobs THEN "no-job"
    ELSE IF existingApplication(body.jobId, normalizeEmail(body.email)) THEN "duplicate"
    ELSE IF newApplication(body).status \notin AppStatuses THEN "schema"
    ELSE "ok"

\* submitOutcome without the duplicate check
submitOutcomeNoDuplicateCheck(body) ==
    IF ~applicationValidation(body) THEN "invalid"
    ELSE IF body.jobId \notin DOMAIN jobs THEN "no-job"
    ELSE IF jobs[body.jobId].status # "active" THEN "not-accepting"
    ELSE IF newApplication(body).status \notin AppStatuses THEN "schema"
    ELSE "ok"

\* the checks of POST /api/applications, in the order the handler makes them
submitOutcome(body) ==
    IF ~applicationValidation(body) THEN "invalid"
    ELSE IF body.jobId \notin DOMAIN jobs THEN "no-job"
    ELSE IF jobs[body.jobId].status # "active" THEN "not-accepting"
    ELSE IF existingApplication(body.jobId, normalizeEmail(body.email)) THEN "duplicate"
    ELSE IF newApplication(body).status \notin AppStatuses THEN "schema"
    ELSE "ok"

\* attempts: the notifications the handler tried to send; mails: those handed
\* to the transport
submitResp(body, code, error, created, attempts, mails) ==
    [op |-> "submit-application", body |-> body, code |-> code,
     error |-> error, created |-> created, attempts |-> attempts, mails |-> mails]

\* POST /api/applications
SubmitApplication(body) ==
    LET outcome == submitOutcome(body)
        doc == newApplication(body)
        box == trySendMail(trySendMail(outbox,
                   [to |-> doc.email, kind |-> "application-received"]),
                   [to |-> OperatorAddress, kind |-> "new-application"])
    IN
    /\ UNCHANGED <<clock, inflight, authVars, jobs, usedJobs, contactVars>>
    /\ CASE outcome = "invalid" ->
              /\ resp' = submitResp(body, 400, "Validation failed", 0, 0, 0)
              /\ UNCHANGED <<apps, nextApp, outbox>>
         [] outcome = "no-job" ->
              /\ resp' = submitResp(body, 404, "Job not found", 0, 0, 0)
              /\ UNCHANGED <<apps, nextApp, outbox>>
         [] outcome = "not-accepting" ->
              /\ resp' = submitResp(body, 400, "This job is no longer accepting applications", 0, 0, 0)
              /\ UNCHANGED <<apps, nextApp, outbox>>
         [] outcome = "duplicate" ->
              /\ resp' = submitResp(body, 400, "You have already applied for this position", 0, 0, 0)
              /\ UNCHANGED <<apps, nextApp, outbox>>
         [] outcome = "schema" ->
              /\ resp' = submitResp(body, 400, "Validation failed", 0, 0, 0)
              /\ UNCHANGED <<apps, nextApp, outbox>>
         [] outcome = "ok" ->
              /\ nextApp < MaxApps
              /\ apps' = apps \cup {doc}
              /\ nextApp' = nextApp + 1
              /\ outbox' = box
              /\ resp' = submitResp(body, afterMail(201, 2, Len(box) - Len(outbox)), "",
                                    doc.id, 2, Len(box) - Len(outbox))

jobResp(op, id, code, error) == [op |-> op, id |-> id, code |-> code, error |-> error]

\* POST /api/jobs
CreateJob(token, status) ==
    LET id == CHOOSE j \in JobIds \ usedJobs : TRUE
    IN
    /\ UNCHANGED <<clock, inflight, authVars, apps, nextApp, contactVars, outbox>>
    /\ IF auth(token) = NoAdmin
       THEN /\ resp' = jobResp("create-job", NoValue, 401, "Access denied")
            /\ UNCHANGED <<jobs, usedJobs>>
       ELSE /\ JobIds \ usedJobs # {}
            /\ jobs' = [j \in DOMAIN jobs \cup {id} |->
                           IF j = id THEN [status |-> status, createdBy |-> auth(token).username]
                           ELSE jobs[j]]
            /\ usedJobs' = usedJobs \cup {id}
            /\ resp' = jobResp("create-job", id, 201, "")

\* PUT /api/jobs/:id
UpdateJob(token, id, status) ==
    /\ UNCHANGED <<clock, inflight, authVars, usedJobs, apps, nextApp, contactVars, outbox>>
    /\ IF auth(token) = NoAdmin
       THEN /\ resp' = jobResp("update-job", id, 401, "Access denied")
            /\ UNCHANGED jobs
       ELSE IF id \notin DOMAIN jobs
       THEN /\ resp' = jobResp("update-job", id, 404, "Job not found")
            /\ UNCHANGED jobs
       ELSE /\ jobs' = [jobs EXCEPT ![id].status = status]
            /\ resp' = jobResp("update-job", id, 200, "")

\* Job.findByIdAndDelete(req.params.id)
findByIdAndDelete(id) == [j \in DOMAIN jobs \ {id} |-> jobs[j]]

\* Application.deleteMany({ jobId: req.params.id })
deleteMany(jobId) == {a \in apps : a.jobId # jobId}

\* DELETE /api/jobs/admin/:id
AdminDeleteJob(token, id) ==
    /\ UNCHANGED <<clock, inflight, authVars, usedJobs, nextApp, contactVars, outbox>>
    /\ IF auth(token) = NoAdmin
       THEN /\ resp' = jobResp("admin-delete-job", id, 401, "Access denied")
            /\ UNCHANGED <<jobs, apps>>
       ELSE IF id \notin DOMAIN jobs
       THEN /\ resp' = jobResp("admin-delete-job", id, 404, "Job not found")
            /\ UNCHANGED <<jobs, apps>>
       ELSE /\ jobs' = findByIdAndDelete(id)
            /\ apps' = deleteMany(id)
            /\ resp' = jobResp("admin-delete-job", id, 200, "")

\* DELETE /api/jobs/:id
DeleteJob(token, id) ==
    /\ UNCHANGED <<clock, inflight, authVars, usedJobs, apps, nextApp, contactVars, outbox>>
    /\ IF auth(token) = NoAdmin
       THEN /\ resp' = jobResp("delete-job", id, 401, "Access denied")
            /\ UNCHANGED jobs
       ELSE IF id \notin DOMAIN jobs
       THEN /\ resp' = jobResp("delete-job", id, 404, "Job not found")
            /\ UNCHANGED jobs
       ELSE /\ jobs' = findByIdAndDelete(id)
            /\ resp' = jobResp("delete-job", id, 200, "")

\* request fields of the application update routes: req.body.status (absent,
\* the empty string, a value of the schema, or another string) and req.body.notes
UpdateStatuses == {NoValue, "", "reviewing", "hired", "bogus"}
UpdateNotes == {NoValue, "note"}

\* the statuses whose update sends a message to the applicant
NotifyStatuses == {"shortlisted", "rejected", "hired"}

\* if (status): an absent or empty status is no status
present(status) == status \notin {NoValue, ""}

NoApp ==
    [id |-> 0, jobId |-> NoValue, email |-> NoValue, status |-> NoValue,
     notes |-> NoValue, reviewedBy |-> NoValue, reviewedAt |-> NoTime]

\* the Application document with this id
findApp(id) ==
    IF \E a \in apps : a.id = id THEN CHOOSE a \in apps : a.id = id ELSE NoApp

\* updateData stamping reviewedBy without reviewedAt
updateDataNoTimeStamp(a, admin, status, notes) ==
    [a EXCEPT !.status = IF present(status) THEN status ELSE @,
              !.notes = IF notes # NoValue THEN notes ELSE @,
              !.reviewedBy = IF present(status) THEN admin.username ELSE @]

\* updateData and findByIdAndUpdate(id, updateData): the document after the update
updateData(a, admin, status, notes) ==
    [a EXCEPT !.status = IF present(status) THEN status ELSE @,
              !.notes = IF notes # NoValue THEN notes ELSE @,
              !.reviewedBy = IF present(status) THEN admin.username ELSE @,
              !.reviewedAt = IF present(status) THEN clock ELSE @]

updateResp(op, token, id, status, notes, code, error, attempts, mails) ==
    [op |-> op, token |-> token, id |-> id, status |-> status, notes |-> notes,
     code |-> code, error |-> error, attempts |-> attempts, mails |-> mails]

\* updateOutcome without the check of the status against validStatuses
updateOutcomeNoStatusCheck(token, id, status) ==
    IF auth(token) = NoAdmin THEN "denied"
    ELSE IF findApp(id) = NoApp THEN "not-found"
    ELSE "ok"

\* the checks of the application update routes, in the order the handler makes them
updateOutcome(token, id, status) ==
    IF auth(token) = NoAdmin THEN "denied"
    ELSE IF present(status) /\ status \notin AppStatuses THEN "invalid-status"
    ELSE IF findApp(id) = NoApp THEN "not-found"
    ELSE "ok"

\* the handler shared by PUT /api/applications/:id and PUT /api/applications/admin/:id
updateApplication(op, token, id, status, notes) ==
    LET outcome == updateOutcome(token, id, status)
        doc == updateData(findApp(id), auth(token), status, notes)
        attempts == IF status \in NotifyStatuses THEN 1 ELSE 0
        box == IF status \in NotifyStatuses
               THEN trySendMail(outbox, [to |-> doc.email, kind |-> status])
               ELSE outbox
    IN
    /\ UNCHANGED <<clock, inflight, authVars, jobs, usedJobs, nextApp, contactVars>>
    /\ CASE outcome = "denied" ->
              /\ resp' = updateResp(op, token, id, status, notes, 401, "Access denied", 0, 0)
              /\ UNCHANGED <<apps, outbox>>
         [] outcome = "invalid-status" ->
              /\ resp' = updateResp(op, token, id, status, notes, 400, "Invalid status", 0, 0)
              /\ UNCHANGED <<apps, outbox>>
         [] outcome = "not-found" ->
              /\ resp' = updateResp(op, token, id, status, notes, 404, "Application not found", 0, 0)
              /\ UNCHANGED <<apps, outbox>>
         [] outcome = "ok" ->
              /\ apps' = (apps \ {findApp(id)}) \cup {doc}
              /\ outbox' = box
              /\ resp' = updateResp(op, token, id, status, notes,
                                    afterMail(200, attempts, Len(box) - Len(outbox)), "",
                                    attempts, Len(box) - Len(outbox))

\* PUT /api/applications/:id
UpdateApplication(token, id, status, notes) ==
    updateApplication("update-application", token, id, status, notes)

\* PUT /api/applications/admin/:id
AdminUpdateApplication(token, id, status, notes) ==
    updateApplication("admin-update-application", token, id, status, notes)

----------------------------------------------------------------------------
(* Contact leads *)

ContactStatuses == {"new", "contacted", "in-progress", "completed", "closed"}

\* request bodies of POST /api/contact: the e-mail address, whether the other
\* validated fields pass, and a status field the client may add
ContactBodies ==
    [email : RawEmails, fields : {"ok", "bad"}, status : {NoValue, "closed", "bogus"}]

\* contactValidation, validate
contactValidation(body) == body.fields = "ok"

\* existingContact matching the e-mail address whatever its age
existingContactAnyAge(email) == \E c \in contacts : c.email = email

\* Contact.findOne({ email, createdAt: { $gte: twentyFourHoursAgo } })
existingContact(email) ==
    \E c \in contacts : c.email = email /\ c.createdAt >= clock - ContactWindow

\* new Contact(req.body): schema defaults, the fields of the body, timestamps
newContact(body) ==
    [id |-> nextContact + 1, email |-> normalizeEmail(body.email),
     createdAt |-> clock,
     status |-> IF body.status = NoValue THEN "new" ELSE body.status,
     priority |-> "medium",
     notes |-> NoValue, assignedTo |-> NoValue, followUpDate |-> NoTime]

contactResp(body, code, error, created, mails) ==
    [op |-> "submit-contact", body |-> body, code |-> code, error |-> error,
     created |-> created, mails |-> mails]

\* POST /api/contact
SubmitContact(body) ==
    LET doc == newContact(body)
        \* the confirmation: createTransport is not defined, a ReferenceError
        \* caught by the first try block; the alert goes through createTransporter
        box == trySendMail(outbox, [to |-> OperatorAddress, kind |-> "new-contact"])
    IN
    /\ UNCHANGED <<clock, inflight, authVars, jobVars>>
    /\ IF ~contactValidation(body)
       THEN /\ resp' = contactResp(body, 400, "Validation failed", 0, 0)
            /\ UNCHANGED <<contacts, nextContact, outbox>>
       ELSE IF existingContact(normalizeEmail(body.email))
       THEN /\ resp' = contactResp(body, 400, "You have already submitted a contact form in the last 24 hours", 0, 0)
            /\ UNCHANGED <<contacts, nextContact, outbox>>
       ELSE IF doc.status \notin ContactStatuses
       THEN /\ resp' = contactResp(body, 400, "Validation failed", 0, 0)
            /\ UNCHANGED <<contacts, nextContact, outbox>>
       ELSE /\ nextContact < MaxContacts
            /\ contacts' = contacts \cup {doc}
            /\ nextContact' = nextContact + 1
            /\ outbox' = box
            /\ resp' = contactResp(body, afterMail(201, 2, Len(box) - Len(outbox)), "",
                                    doc.id, Len(box) - Len(outbox))

\* request paths under /api/contact that GET requests ask for
ContactPaths == {"/", "/stats", "/admin/stats"}

\* the GET routes of the contact router, matched in the order of their
\* definition: /admin, /admin/stats, /admin/:id, /
contactGetRoute(path) ==
    CASE path = "/admin" -> "list"
      [] path = "/admin/stats" -> "stats"
      [] path = "/" -> "public"
      [] OTHER -> "none"

getResp(token, path, code, error, total) ==
    [op |-> "get-contact", token |-> token, path |-> path, code |-> code,
     error |-> error, total |-> total]

\* GET /api/contact<path> with the token as bearer value; a path that no route
\* of the router matches falls through to the 404 handler of the server
GetContact(token, path) ==
    LET route == contactGetRoute(path)
    IN
    /\ UNCHANGED <<clock, inflight, authVars, jobVars, contactVars, outbox>>
    /\ resp' =
         CASE route = "none" -> getResp(token, path, 404, "Route not found", 0)
           [] route = "public" -> getResp(token, path, 200, "", 0)
           [] route \in {"stats", "list"} ->
                 IF auth(token) = NoAdmin
                 THEN getResp(token, path, 401, "Access denied", 0)
                 ELSE getResp(token, path, 200, "", Cardinality(contacts))

----------------------------------------------------------------------------
(* Login requests in flight together.  The handler reads the account, checks *)
(* the lock and isActive on the copy it read, awaits the password comparison *)
(* and then writes; other requests run while it waits.                       *)

\* countFailure computing the new counter from the copy the handler read
countFailureStale(r) == [admins EXCEPT ![r.id] = incLoginAttempts(r.admin)]

\* await admin.incLoginAttempts(): the store applies the increment, and the
\* lock when the threshold is reached, to the stored document in one update
countFailure(r) == afterMismatch(r.id)

\* the login handler up to `await admin.comparePassword(password)`: a request
\* refused before the comparison is answered at once
LoginBegin(s, op, username, password) ==
    /\ inflight[s] = IdleReq
    /\ IF loginOutcome(username, password) \in {"mismatch", "ok"}
       THEN /\ inflight' = [inflight EXCEPT ![s] =
                   [pc |-> "comparing", op |-> op, username |-> username,
                    password |-> password, id |-> findOne(username),
                    admin |-> findById(findOne(username))]]
            /\ resp' = Idle
            /\ UNCHANGED <<clock, authVars, jobVars, contactVars, outbox>>
       ELSE login(op, username, password)

\* the login handler from the result of the comparison to its reply
LoginEnd(s) ==
    LET r == inflight[s]
        token == jwtSign(r.id, r.admin.username, r.admin.role)
        reply(code, error, tok) ==
            loginResp(r.op, r.username, r.password, code, error, tok, r.admin)
    IN
    /\ r.pc = "comparing"
    /\ inflight' = [inflight EXCEPT ![s] = IdleReq]
    /\ UNCHANGED <<clock, jobVars, contactVars, outbox>>
    /\ IF comparePassword(r.admin, r.password)
       THEN /\ admins' = afterMatch(r.id)
            /\ failTimes' = [failTimes EXCEPT ![r.id] = <<>>]
            /\ wallet' = keep(token)
            /\ resp' = reply(200, "", token)
       ELSE /\ admins' = countFailure(r)
            /\ failTimes' = noteFailure(r.id)
            /\ resp' = reply(401, "Invalid credentials", NoToken)
            /\ UNCHANGED wallet

----------------------------------------------------------------------------
(* Submissions and updates in flight.  The handlers are split at their       *)
(* awaits: the reads, the write, each notification block, the reply.         *)

\* the checks POST /api/applications makes on the result of Job.findById
jobOutcome(body) ==
    IF ~applicationValidation(body) THEN "invalid"
    ELSE IF body.jobId \notin DOMAIN jobs THEN "no-job"
    ELSE IF jobs[body.jobId].status # "active" THEN "not-accepting"
    ELSE "ok"

\* submissions in flight that have yet to save their document
pendingSaves ==
    Cardinality({s \in Slots : inflight[s].pc \in {"job-checked", "dup-checked"}})

\* a handler that has written and has its notification blocks and its reply
\* ahead: the reply it will send, the notification blocks still to run, the
\* blocks run so far and the mails handed to the transport
saved(reply, mails) ==
    [pc |-> "saved", reply |-> reply, mails |-> mails,
     triggers |-> Len(mails), attempts |-> 0, sent |-> 0]

\* POST /api/applications up to `await Job.findById(req.body.jobId)` and the
\* checks of its result
SubmitBegin(s, body) ==
    /\ inflight[s] = IdleReq
    /\ IF jobOutcome(body) # "ok"
       THEN SubmitApplication(body)
       ELSE /\ nextApp + pendingSaves < MaxApps
            /\ inflight' = [inflight EXCEPT ![s] = [pc |-> "job-checked", body |-> body]]
            /\ resp' = Idle
            /\ UNCHANGED <<clock, authVars, jobVars, contactVars, outbox>>

\* POST /api/applications: `await Application.findOne({ jobId, email })` and
\* the check of its result
SubmitCheck(s) ==
    LET r == inflight[s]
    IN
    /\ r.pc = "job-checked"
    /\ UNCHANGED <<clock, authVars, jobVars, contactVars, outbox>>
    /\ IF existingApplication(r.body.jobId, normalizeEmail(r.body.email))
       THEN /\ resp' = submitResp(r.body, 400, "You have already applied for this position", 0, 0, 0)
            /\ inflight' = [inflight EXCEPT ![s] = IdleReq]
       ELSE /\ resp' = Idle
            /\ inflight' = [inflight EXCEPT ![s] = [r EXCEPT !.pc = "dup-checked"]]

\* POST /api/applications: `new Application(req.body)` and
\* `await application.save()`; no index of the schema is unique
SubmitSave(s) ==
    LET r == inflight[s]
        doc == newApplication(r.body)
    IN
    /\ r.pc = "dup-checked"
    /\ UNCHANGED <<clock, authVars, jobs, usedJobs, contactVars, outbox>>
    /\ IF doc.status \notin AppStatuses
       THEN /\ resp' = submitResp(r.body, 400, "Validation failed", 0, 0, 0)
            /\ inflight' = [inflight EXCEPT ![s] = IdleReq]
            /\ UNCHANGED <<apps, nextApp>>
       ELSE /\ apps' = apps \cup {doc}
            /\ nextApp' = nextApp + 1
            /\ resp' = Idle
            /\ inflight' = [inflight EXCEPT ![s] =
                   saved(submitResp(r.body, 201, "", doc.id, 0, 0),
                         <<[to |-> doc.email, kind |-> "application-received",
                            via |-> "createTransporter"],
                           [to |-> OperatorAddress, kind |-> "new-application",
                            via |-> "createTransporter"]>>)]

\* request bodies of POST /api/contact that pass the validation
LeadBodies == {b \in ContactBodies : b.fields = "ok" /\ b.email # "A@x.com"}

\* POST /api/contact up to `await contact.save()`; a request refused before
\* the save is answered at once
ContactBegin(s, body) ==
    LET doc == newContact(body)
    IN
    /\ inflight[s] = IdleReq
    /\ IF \/ ~contactValidation(body)
          \/ existingContact(normalizeEmail(body.email))
          \/ doc.status \notin ContactStatuses
       THEN SubmitContact(body)
       ELSE /\ nextContact < MaxContacts
            /\ contacts' = contacts \cup {doc}
            /\ nextContact' = nextContact + 1
            /\ resp' = Idle
            /\ inflight' = [inflight EXCEPT ![s] =
                   saved(contactResp(body, 201, "", doc.id, 0),
                         <<[to |-> doc.email, kind |-> "contact-received",
                            via |-> "createTransport"],
                           [to |-> OperatorAddress, kind |-> "new-contact",
                            via |-> "createTransporter"]>>)]
            /\ UNCHANGED <<clock, authVars, jobVars, outbox>>

\* PUT /api/applications/:id up to `await Application.findByIdAndUpdate(...)`;
\* a request refused before the update is answered at once
UpdateBegin(s, token, id, status, notes) ==
    LET doc == updateData(findApp(id), auth(token), status, notes)
    IN
    /\ inflight[s] = IdleReq
    /\ IF updateOutcome(token, id, status) # "ok"
       THEN UpdateApplication(token, id, status, notes)
       ELSE /\ apps' = (apps \ {findApp(id)}) \cup {doc}
            /\ resp' = Idle
            /\ inflight' = [inflight EXCEPT ![s] =
                   saved(updateResp("update-application", token, id, status, notes,
                                    200, "", 0, 0),
                         IF status \in NotifyStatuses
                         THEN <<[to |-> doc.email, kind |-> status,
                                 via |-> "createTransporter"]>>
                         ELSE <<>>)]
            /\ UNCHANGED <<clock, authVars, jobs, usedJobs, nextApp, contactVars, outbox>>

\* Notify running a block again when its mail was not handed over
afterBlockRetry(r, handed) ==
    [r EXCEPT !.mails = IF handed THEN Tail(@) ELSE @,
              !.attempts = @ + 1,
              !.sent = IF handed THEN @ + 1 ELSE @,
              !.pc = IF handed THEN "awaiting-mail" ELSE @]

\* the handler after one notification block: a block whose helper threw is
\* left through its catch, the handler goes on to the next statement; a block
\* that reached sendMail stays at `await transporter.sendMail(...)`
afterBlock(r, handed) ==
    [r EXCEPT !.mails = Tail(@),
              !.attempts = @ + 1,
              !.sent = IF handed THEN @ + 1 ELSE @,
              !.pc = IF handed THEN "awaiting-mail" ELSE @]

\* one notification block of a handler:
\* try { const transporter = createTransporter(); ...;
\*       await transporter.sendMail(mail) } catch (emailError) { ... }
\* The first block of POST /api/contact calls createTransport, which is not
\* defined.  No step leaves "awaiting-mail": the transport does not answer.
Notify(s) ==
    LET r == inflight[s]
        mail == Head(r.mails)
        box == IF mail.via = "createTransport" THEN outbox
               ELSE trySendMail(outbox, [to |-> mail.to, kind |-> mail.kind])
    IN
    /\ r.pc = "saved"
    /\ r.mails # <<>>
    /\ outbox' = box
    /\ inflight' = [inflight EXCEPT ![s] = afterBlock(r, Len(box) > Len(outbox))]
    /\ resp' = Idle
    /\ UNCHANGED <<clock, authVars, jobVars, contactVars>>

\* the reply of a handler whose notification blocks have all been left
finalReply(r) ==
    LET code == afterMail(r.reply.code, r.attempts, r.sent)
    IN  IF r.reply.op = "submit-contact"
        THEN [r.reply EXCEPT !.code = code, !.mails = r.sent]
        ELSE [r.reply EXCEPT !.code = code, !.attempts = r.attempts, !.mails = r.sent]

\* res.status(201).json(...) / res.json(...): the statement after the last
\* notification block
Respond(s) ==
    LET r == inflight[s]
    IN
    /\ r.pc = "saved"
    /\ r.mails = <<>>
    /\ resp' = finalReply(r)
    /\ inflight' = [inflight EXCEPT ![s] = IdleReq]
    /\ UNCHANGED <<clock, authVars, jobVars, contactVars, outbox>>

----------------------------------------------------------------------------
(* Specifications *)

InitAuth ==
    /\ clock = 0
    /\ admins = [id \in {"a1"} |-> DefaultAdmin]
    /\ failTimes = [id \in {"a1"} |-> <<>>]
    /\ wallet = {}
    /\ jobs = [id \in {} |-> NoValue]
    /\ usedJobs = {}
    /\ apps = {}
    /\ nextApp = 0
    /\ contacts = {}
    /\ nextContact = 0
    /\ outbox = <<>>
    /\ inflight = [s \in Slots |-> IdleReq]
    /\ resp = Idle

Init == InitAuth

Next ==
    \/ \E u \in Usernames, p \in Passwords : AdminLogin(u, p)
    \/ \E u \in Usernames, p \in Passwords : AuthLogin(u, p)
    \/ \E u \in Usernames, p \in Passwords : TestLogin(u, p)
    \/ \E t \in wallet : Logout(t)
    \/ \E t \in wallet \cup {NoToken} : AuthCheck(t)
    \/ \E t \in wallet \cup {NoToken} : AdminVerify(t)
    \/ \E id \in DOMAIN admins, b \in BOOLEAN : SetActive(id, b)
    \/ Tick(MaxTime)

Spec == Init /\ [][Next]_vars

\* the store after the seed script and an administrator's login at hour 0
InitApp ==
    /\ clock = 0
    /\ admins = [id \in {"a1"} |-> DefaultAdmin]
    /\ failTimes = [id \in {"a1"} |-> <<>>]
    /\ wallet = {[id |-> "a1", username |-> "admin", role |-> "super-admin",
                  iat |-> 0, exp |-> TokenTTL]}
    /\ jobs = [id \in {"j1"} |-> [status |-> "active", createdBy |-> "admin"]]
    /\ usedJobs = {"j1"}
    /\ apps = {}
    /\ nextApp = 0
    /\ contacts = {}
    /\ nextContact = 0
    /\ outbox = <<>>
    /\ inflight = [s \in Slots |-> IdleReq]
    /\ resp = Idle

NextApp ==
    \/ \E body \in AppBodies : SubmitApplication(body)
    \/ \E t \in wallet \cup {NoToken}, st \in JobStatuses : CreateJob(t, st)
    \/ \E t \in wallet \cup {NoToken}, id \in JobIds, st \in JobStatuses : UpdateJob(t, id, st)
    \/ \E t \in wallet \cup {NoToken}, id \in JobIds : AdminDeleteJob(t, id)
    \/ \E t \in wallet \cup {NoToken}, id \in JobIds : DeleteJob(t, id)

SpecApp == InitApp /\ [][NextApp]_vars

\* application bodies of the review scenario: one posting, two applicants
ReviewBodies ==
    {b \in AppBodies : b.jobId = "j1" /\ b.email # "A@x.com" /\ b.fields = "ok"}

NextReview ==
    \/ \E body \in ReviewBodies : SubmitApplication(body)
    \/ \E t \in wallet \cup {NoToken}, id \in 1..MaxApps,
          st \in UpdateStatuses, n \in UpdateNotes : UpdateApplication(t, id, st, n)
    \/ \E t \in wallet \cup {NoToken}, id \in 1..MaxApps,
          st \in UpdateStatuses, n \in UpdateNotes : AdminUpdateApplication(t, id, st, n)
    \/ Tick(MaxReviewTime)

SpecReview == InitApp /\ [][NextReview]_vars

\* public submissions of both kinds side by side
NextSubmit ==
    \/ \E body \in ReviewBodies : SubmitApplication(body)
    \/ \E body \in ContactBodies : SubmitContact(body)
    \/ Tick(MaxTime)

SpecSubmit == InitApp /\ [][NextSubmit]_vars

NextContact ==
    \/ \E body \in ContactBodies : SubmitContact(body)
    \/ Tick(MaxLongTime)

SpecContact == InitAuth /\ [][NextContact]_vars

\* session tokens over a day and more: logins with the account's password
TokenPasswords == {"admin123"}

NextToken ==
    \/ \E u \in Usernames, p \in TokenPasswords : AdminLogin(u, p)
    \/ \E u \in Usernames, p \in TokenPasswords : AuthLogin(u, p)
    \/ \E t \in wallet : Logout(t)
    \/ \E t \in wallet \cup {NoToken} : AuthCheck(t)
    \/ \E t \in wallet \cup {NoToken} : AdminVerify(t)
    \/ \E id \in DOMAIN admins, b \in BOOLEAN : SetActive(id, b)
    \/ Tick(MaxLongTime)

SpecToken == Init /\ [][NextToken]_vars

\* administrators creating accounts: logins with the accounts' password
NextAdmin ==
    \/ \E u \in Usernames, p \in TokenPasswords : AdminLogin(u, p)
    \/ \E t \in wallet : Logout(t)
    \/ \E t \in wallet \cup {NoToken}, body \in CreateBodies : CreateAdmin(t, body)
    \/ \E t \in wallet \cup {NoToken}, e \in ProfileEmails : UpdateProfile(t, e)

SpecAdmin == InitAuth /\ [][NextAdmin]_vars

\* the store before the first start of the server
InitEmpty ==
    /\ clock = 0
    /\ admins = [id \in {} |-> NoAdmin]
    /\ failTimes = [id \in {} |-> <<>>]
    /\ wallet = {}
    /\ jobs = [id \in {} |-> NoValue]
    /\ usedJobs = {}
    /\ apps = {}
    /\ nextApp = 0
    /\ contacts = {}
    /\ nextContact = 0
    /\ outbox = <<>>
    /\ inflight = [s \in Slots |-> IdleReq]
    /\ resp = Idle

\* bootstrap runs among logins and account creations
NextBoot ==
    \/ \E kind \in BootKinds : Bootstrap(kind)
    \/ \E u \in Usernames, p \in TokenPasswords : AdminLogin(u, p)
    \/ \E t \in wallet : Logout(t)
    \/ \E t \in wallet \cup {NoToken}, body \in CreateBodies : CreateAdmin(t, body)

SpecBoot == InitEmpty /\ [][NextBoot]_vars

\* an administrator reading the contact statistics while leads come in
NextStats ==
    \/ \E u \in Usernames, p \in TokenPasswords : AuthLogin(u, p)
    \/ \E t \in wallet : Logout(t)
    \/ \E body \in ContactBodies : SubmitContact(body)
    \/ \E t \in wallet \cup {NoToken}, path \in ContactPaths : GetContact(t, path)

SpecStats == InitAuth /\ [][NextStats]_vars

\* login requests of POST /api/admin/login in flight together
NextRace ==
    \/ \E s \in Slots, u \in Usernames, p \in Passwords :
          LoginBegin(s, "admin-login", u, p)
    \/ \E s \in Slots : LoginEnd(s)
    \/ Tick(MaxTime)

SpecRace == InitAuth /\ [][NextRace]_vars

\* application bodies of the intake scenario: one posting, two applicants
IntakeBodies == {b \in ReviewBodies : b.status # "hired"}

\* submissions in flight together, among deletions of the posting
NextIntake ==
    \/ \E s \in Slots, body \in IntakeBodies : SubmitBegin(s, body)
    \/ \E s \in Slots : SubmitCheck(s)
    \/ \E s \in Slots : SubmitSave(s)
    \/ \E s \in Slots : Notify(s)
    \/ \E s \in Slots : Respond(s)
    \/ \E t \in wallet \cup {NoToken}, id \in JobIds : AdminDeleteJob(t, id)
    \/ \E t \in wallet \cup {NoToken}, id \in JobIds : DeleteJob(t, id)

SpecIntake == InitApp /\ [][NextIntake]_vars

\* the three handlers that notify, in flight together
NextNotify ==
    \/ \E s \in Slots, body \in IntakeBodies : SubmitBegin(s, body)
    \/ \E s \in Slots : SubmitCheck(s)
    \/ \E s \in Slots : SubmitSave(s)
    \/ \E s \in Slots, body \in LeadBodies : ContactBegin(s, body)
    \/ \E s \in Slots, t \in wallet, id \in 1..MaxApps, st \in {"reviewing", "hired"} :
          UpdateBegin(s, t, id, st, NoValue)
    \/ \E s \in Slots : Notify(s)
    \/ \E s \in Slots : Respond(s)

SpecNotify == InitApp /\ [][NextNotify]_vars

\* a handler whose awaited promise has settled is resumed by the event loop
FairNotify ==
    /\ SpecNotify
    /\ \A s \in Slots : WF_vars(SubmitCheck(s))
    /\ \A s \in Slots : WF_vars(SubmitSave(s))
    /\ \A s \in Slots : WF_vars(Notify(s))
    /\ \A s \in Slots : WF_vars(Respond(s))



----------------------------------------------------------------------------
(* Claims about login and lockout (under Spec) *)

LoginOps == {"admin-login", "auth-login"}

\* the account a login response is about (NoAdmin for an unknown username)
accountOf(r) == findById(findOne(r.username))

\* C1: when the latest MaxLoginAttempts login requests for an existing, active
\* account were failed logins (wrong password, none followed by a successful
\* login) and the first of them is less than LockTime old, the next
\* well-formed login request for the account is answered 423 and is issued no
\* token, whether or not its password is right.
C1_LockedAfterFiveFailures ==
    [][\A id \in DOMAIN admins :
          ( /\ admins[id].isActive
            /\ Len(failTimes[id]) = MaxLoginAttempts
            /\ clock < failTimes[id][1] + LockTime
            /\ resp'.op \in LoginOps
            /\ resp'.username = admins[id].username
            /\ resp'.password # "" )
          => (resp'.code = 423 /\ resp'.token = NoToken /\ wallet' = wallet)]_vars

\* C1 witness: five fresh failures, then the correct password is answered 423
C1_Witness ==
    /\ resp.op \in LoginOps
    /\ resp.code = 423
    /\ accountOf(resp).isActive
    /\ comparePassword(accountOf(resp), resp.password)
    /\ Len(failTimes[findOne(resp.username)]) = MaxLoginAttempts
    /\ clock < failTimes[findOne(resp.username)][1] + LockTime

\* C2: after a login request that was issued a token, the account's
\* failedAttempts is 0 and its lockedUntil is cleared.
C2_SuccessResetsCounters ==
    (resp.op \in LoginOps /\ resp.token # NoToken)
    => ( /\ accountOf(resp) # NoAdmin
         /\ accountOf(resp).failedAttempts = 0
         /\ accountOf(resp).lockedUntil = NoTime )

\* C2 witness: a successful login of an account that had failures counted and
\* an (expired) lockout recorded
C2_Witness ==
    /\ resp.op \in LoginOps
    /\ resp.token # NoToken
    /\ resp.before.failedAttempts > 0
    /\ resp.before.lockedUntil # NoTime
    /\ accountOf(resp).failedAttempts = 0

\* C3 as claimed: a login request for an account whose isActive flag is false
\* is answered 401 "Account is deactivated" and is issued no token.
C3_InactiveAlwaysDeactivated ==
    ( /\ resp.op \in LoginOps
      /\ resp.username # "" /\ resp.password # ""
      /\ accountOf(resp) # NoAdmin
      /\ ~accountOf(resp).isActive )
    => ( /\ resp.code = 401
         /\ resp.error = "Account is deactivated"
         /\ resp.token = NoToken )

\* C3 amended: a login request for an account whose isActive flag is false is
\* issued no token; it is answered 401 "Account is deactivated" when the
\* account is not locked and 423 when the account is locked.
C3_InactiveRefused ==
    ( /\ resp.op \in LoginOps
      /\ resp.username # "" /\ resp.password # ""
      /\ accountOf(resp) # NoAdmin
      /\ ~accountOf(resp).isActive )
    => ( /\ resp.token = NoToken
         /\ resp.before = accountOf(resp)
         /\ IF isLocked(accountOf(resp))
            THEN resp.code = 423
            ELSE resp.code = 401 /\ resp.error = "Account is deactivated" )

\* C3 witness: the correct password, an unlocked inactive account, 401
C3_Witness ==
    /\ resp.op \in LoginOps
    /\ accountOf(resp) # NoAdmin
    /\ ~accountOf(resp).isActive
    /\ ~isLocked(accountOf(resp))
    /\ comparePassword(accountOf(resp), resp.password)
    /\ resp.code = 401
    /\ resp.error = "Account is deactivated"

\* a well-formed login request whose password is not the account's
WrongPassword(r) ==
    /\ r.op \in LoginOps
    /\ r.username # "" /\ r.password # ""
    /\ ~comparePassword(accountOf(r), r.password)

\* C6 as claimed: every login request with a wrong password is answered
\* 401 "Invalid credentials", whether or not the username has an account.
C6_WrongPasswordAlwaysInvalid ==
    WrongPassword(resp)
    => (resp.code = 401 /\ resp.error = "Invalid credentials")

\* C6 amended: a login request with a wrong password is answered
\* 401 "Invalid credentials" when the username has no account and when it has
\* an active account that is not locked; a locked account answers 423 and a
\* deactivated one 401 "Account is deactivated".
C6_UnknownLikeWrongPassword ==
    [][( /\ WrongPassword(resp')
         /\ \/ findOne(resp'.username) = NoValue
            \/ ( /\ findById(findOne(resp'.username)).isActive
                 /\ ~isLocked(findById(findOne(resp'.username))) ) )
       => ( /\ resp'.code = 401
            /\ resp'.error = "Invalid credentials"
            /\ resp'.token = NoToken )]_vars

\* C6 witness: an unknown username answered 401 "Invalid credentials"
C6_Witness ==
    /\ resp.op \in LoginOps
    /\ resp.username # "" /\ resp.password # ""
    /\ findOne(resp.username) = NoValue
    /\ resp.code = 401
    /\ resp.error = "Invalid credentials"

----------------------------------------------------------------------------
(* Claims about session tokens (under SpecToken) *)

VerifyOps == {"auth-check", "admin-verify"}

\* C4: token verification (GET /api/auth, GET /api/admin/verify) of a token
\* whose account has its isActive flag false reports not authenticated, also
\* when the token has not expired.
C4_InactiveTokenRejected ==
    ( /\ resp.op \in VerifyOps
      /\ resp.token # NoToken
      /\ findById(resp.token.id) # NoAdmin
      /\ ~findById(resp.token.id).isActive )
    => ( /\ ~resp.authenticated
         /\ resp.op = "admin-verify" => resp.code = 401 )

\* C4 witness: an unexpired token of a deactivated account is refused
C4_Witness ==
    /\ resp.op \in VerifyOps
    /\ resp.token # NoToken
    /\ clock < resp.token.iat + TokenTTL
    /\ findById(resp.token.id) # NoAdmin
    /\ ~findById(resp.token.id).isActive
    /\ ~resp.authenticated

\* C5: GET /api/auth accepts the token a login issued at hour T at every hour
\* before T + TokenTTL and refuses it at every hour after T + TokenTTL, while
\* the account is active.
C5_TokenLifetime ==
    ( /\ resp.op = "auth-check"
      /\ resp.token # NoToken
      /\ findById(resp.token.id) # NoAdmin
      /\ findById(resp.token.id).isActive )
    => ( /\ clock < resp.token.iat + TokenTTL => resp.authenticated
         /\ clock > resp.token.iat + TokenTTL => ~resp.authenticated )

\* C5 witness: a token refused one hour after the end of its lifetime
C5_Witness ==
    /\ resp.op = "auth-check"
    /\ resp.token # NoToken
    /\ findById(resp.token.id).isActive
    /\ resp.token.iat > 0
    /\ clock = resp.token.iat + TokenTTL + 1
    /\ ~resp.authenticated

\* a token accepted in the last hour of its lifetime
C5_AcceptedInLastHour ==
    /\ resp.op = "auth-check"
    /\ resp.token # NoToken
    /\ clock = resp.token.iat + TokenTTL - 1
    /\ resp.authenticated

----------------------------------------------------------------------------
(* Claims about applications and job postings (under SpecApp) *)

\* a submission that passes the request validation and the schema validation
WellFormed(body) ==
    /\ applicationValidation(body)
    /\ newApplication(body).status \in AppStatuses

\* an ApplicationRecord with the (jobId, email) pair of the body exists
HasDuplicate(body) ==
    \E a \in apps : a.jobId = body.jobId /\ a.email = normalizeEmail(body.email)

\* C7 as claimed: a submission that passes the request validation and whose
\* (jobId, email) pair a record already has is answered 400 with the duplicate
\* error and creates no record; one whose pair no record has, for an existing
\* active job, is answered 201 and creates exactly one record.
C7_DuplicateAlwaysDuplicateError ==
    [][( /\ resp'.op = "submit-application"
         /\ applicationValidation(resp'.body) )
       => LET body == resp'.body
          IN  /\ HasDuplicate(body) =>
                    ( /\ resp'.code = 400
                      /\ resp'.error = "You have already applied for this position"
                      /\ apps' = apps )
              /\ ( /\ ~HasDuplicate(body)
                   /\ body.jobId \in DOMAIN jobs
                   /\ jobs[body.jobId].status = "active" ) =>
                    ( /\ resp'.code = 201
                      /\ Cardinality(apps') = Cardinality(apps) + 1 )]_vars

\* C7 amended: a submission that passes the request validation and carries no
\* status outside the schema's values, and whose (jobId, email) pair a record
\* already has creates no record; it is answered 400 with the duplicate error
\* when its job exists and is active, and by the job check otherwise (404 for a
\* missing job, 400 "no longer accepting" for a job that is not active).  Such
\* a submission for an existing active job whose pair no record has is
\* answered 201 and creates exactly one record, with that pair.
C7_DuplicateRejectedElseCreated ==
    [][( /\ resp'.op = "submit-application"
         /\ WellFormed(resp'.body) )
       => LET body == resp'.body
              open == body.jobId \in DOMAIN jobs /\ jobs[body.jobId].status = "active"
          IN  /\ HasDuplicate(body) =>
                    /\ apps' = apps
                    /\ resp'.code # 201
                    /\ open => ( /\ resp'.code = 400
                                 /\ resp'.error = "You have already applied for this position" )
                    /\ body.jobId \notin DOMAIN jobs => resp'.code = 404
                    /\ (body.jobId \in DOMAIN jobs /\ ~open) =>
                           ( /\ resp'.code = 400
                             /\ resp'.error = "This job is no longer accepting applications" )
              /\ (~HasDuplicate(body) /\ open) =>
                    /\ resp'.code = 201
                    /\ Cardinality(apps') = Cardinality(apps) + 1
                    /\ apps \subseteq apps'
                    /\ \A a \in apps' \ apps :
                          /\ a.jobId = body.jobId
                          /\ a.email = normalizeEmail(body.email)]_vars

\* C7 witness: a second record for the same address, on another job, stands
\* beside the first, and a repeated submission has just been refused
C7_Witness ==
    /\ resp.op = "submit-application"
    /\ resp.code = 400
    /\ resp.error = "You have already applied for this position"
    /\ \E a, b \in apps : a.email = b.email /\ a.jobId # b.jobId

\* C9 as claimed: after a successful job delete request, through either
\* delete endpoint, no ApplicationRecord references the deleted posting.
C9_DeleteLeavesNoApplications ==
    (resp.op \in {"delete-job", "admin-delete-job"} /\ resp.code = 200)
    => ~\E a \in apps : a.jobId = resp.id

\* C10: a well-formed submission whose jobId names no JobPosting is answered
\* 404, one whose JobPosting is not active is answered 400; neither creates a
\* record nor hands a mail to the transport.
C10_JobMustExistAndAccept ==
    [][( /\ resp'.op = "submit-application"
         /\ applicationValidation(resp'.body) )
       => LET body == resp'.body
          IN  /\ body.jobId \notin DOMAIN jobs =>
                    ( /\ resp'.code = 404
                      /\ apps' = apps /\ nextApp' = nextApp
                      /\ outbox' = outbox
                      /\ resp'.attempts = 0 /\ resp'.mails = 0 )
              /\ (body.jobId \in DOMAIN jobs /\ jobs[body.jobId].status # "active") =>
                    ( /\ resp'.code = 400
                      /\ apps' = apps /\ nextApp' = nextApp
                      /\ outbox' = outbox
                      /\ resp'.attempts = 0 /\ resp'.mails = 0 )]_vars

\* C10 witness: a submission for a posting that exists and is closed, refused
C10_Witness ==
    /\ resp.op = "submit-application"
    /\ applicationValidation(resp.body)
    /\ resp.body.jobId \in DOMAIN jobs
    /\ jobs[resp.body.jobId].status = "closed"
    /\ resp.code = 400
    /\ resp.error = "This job is no longer accepting applications"

\* a submission for a posting that has been deleted, refused
C10_MissingJobRefused ==
    /\ resp.op = "submit-application"
    /\ applicationValidation(resp.body)
    /\ resp.body.jobId \in usedJobs \ DOMAIN jobs
    /\ resp.code = 404

----------------------------------------------------------------------------
(* Claims about contact leads (under SpecContact) *)

\* a contact submission that passes the request validation and the schema
\* validation
WellFormedContact(body) ==
    /\ contactValidation(body)
    /\ newContact(body).status \in ContactStatuses

\* the ContactLeads with the e-mail address of the body
Earlier(body) == {c \in contacts : c.email = normalizeEmail(body.email)}

\* C8: a well-formed contact submission is answered 400 and creates no record
\* when a ContactLead with its e-mail address is less than ContactWindow hours
\* old; it is answered 201 and creates one record when every ContactLead with
\* its e-mail address is more than ContactWindow hours old.
C8_ContactWindow ==
    [][( /\ resp'.op = "submit-contact"
         /\ WellFormedContact(resp'.body) )
       => LET body == resp'.body
          IN  /\ (\E c \in Earlier(body) : clock - c.createdAt < ContactWindow) =>
                    ( /\ resp'.code = 400
                      /\ contacts' = contacts )
              /\ ( /\ Earlier(body) # {}
                   /\ \A c \in Earlier(body) : clock - c.createdAt > ContactWindow ) =>
                    ( /\ resp'.code = 201
                      /\ Cardinality(contacts') = Cardinality(contacts) + 1
                      /\ \A c \in contacts' \ contacts :
                            /\ c.email = normalizeEmail(body.email)
                            /\ c.createdAt = clock )]_vars

\* C8 witness: a second lead from an address whose first lead is more than
\* ContactWindow hours old has just been accepted
C8_Witness ==
    /\ resp.op = "submit-contact"
    /\ resp.code = 201
    /\ \E c \in contacts :
          /\ c.email = normalizeEmail(resp.body.email)
          /\ clock - c.createdAt > ContactWindow

\* a repeated lead refused in the last hour of the window
C8_RefusedInsideWindow ==
    /\ resp.op = "submit-contact"
    /\ resp.code = 400
    /\ contactValidation(resp.body)
    /\ \E c \in contacts :
          /\ c.email = normalizeEmail(resp.body.email)
          /\ clock - c.createdAt = ContactWindow - 1

----------------------------------------------------------------------------
(* Claims about application reviews (under SpecReview) *)

UpdateOps == {"update-application", "admin-update-application"}

\* the step is an application update that the handler carried out
Updated == resp'.op \in UpdateOps /\ resp'.code = 200

\* C11: an application update that carries a (non-empty) status sets, on the record it
\* names, reviewedBy to the acting administrator's username and reviewedAt to
\* the current time in the same step; an update that carries no status leaves
\* reviewedBy and reviewedAt of the record as they were, also when it changes
\* the notes.  No other record is touched.
C11_StatusStampsReview ==
    [][Updated =>
         \A a \in apps :
            IF a.id # resp'.id THEN a \in apps'
            ELSE \E b \in apps' :
                    /\ b.id = a.id
                    /\ apps' = (apps \ {a}) \cup {b}
                    /\ IF present(resp'.status)
                       THEN /\ b.reviewedBy = auth(resp'.token).username
                            /\ b.reviewedAt = clock
                       ELSE /\ b.reviewedBy = a.reviewedBy
                            /\ b.reviewedAt = a.reviewedAt
                            /\ resp'.notes # NoValue => b.notes = resp'.notes]_vars

\* C11 witness: an update without status has just changed the notes of a
\* record that was reviewed an hour earlier, and the stamp is still the old one
C11_Witness ==
    /\ resp.op \in UpdateOps
    /\ resp.code = 200
    /\ resp.status = NoValue
    /\ resp.notes = "note"
    /\ findApp(resp.id).notes = "note"
    /\ findApp(resp.id).reviewedBy = "admin"
    /\ findApp(resp.id).reviewedAt = clock - 1

\* an update with a status has just stamped a record at an hour after the start
C11_StampedNow ==
    /\ resp.op \in UpdateOps
    /\ resp.code = 200
    /\ resp.status = "reviewing"
    /\ clock > 0
    /\ findApp(resp.id).reviewedBy = "admin"
    /\ findApp(resp.id).reviewedAt = clock

\* C12 as claimed: an update that moves a record into shortlisted, rejected or
\* hired hands exactly one message to the mail transport, addressed to the
\* applicant and of the variant of the new status; an update to pending or
\* reviewing, or without status, hands over none.
C12_OneNotificationPerDecision ==
    [][Updated =>
         IF resp'.status \in NotifyStatuses
         THEN outbox' = Append(outbox, [to |-> findApp(resp'.id).email,
                                        kind |-> resp'.status])
         ELSE outbox' = outbox]_vars

\* C13: when an authenticated update sets an existing record's status to
\* shortlisted, rejected or hired and the notification fails, the request is
\* answered 200 and the record carries the new status with the review stamp.
C13_FailedMailKeepsUpdate ==
    [][( /\ resp'.op \in UpdateOps
         /\ auth(resp'.token) # NoAdmin
         /\ resp'.status \in NotifyStatuses
         /\ findApp(resp'.id) # NoApp
         /\ resp'.mails < 1 )
       => /\ resp'.code = 200
          /\ \E b \in apps' :
                /\ b.id = resp'.id
                /\ b.status = resp'.status
                /\ b.reviewedBy = auth(resp'.token).username
                /\ b.reviewedAt = clock]_vars

\* C13 witness: a record has just been set to hired, the one notification
\* attempt failed, and the request was answered 200
C13_Witness ==
    /\ resp.op \in UpdateOps
    /\ resp.status = "hired"
    /\ resp.attempts = 1
    /\ resp.mails = 0
    /\ resp.code = 200
    /\ findApp(resp.id).status = "hired"
    /\ findApp(resp.id).reviewedBy = "admin"

----------------------------------------------------------------------------
(* Claims about the notifications of public submissions *)

\* C14 as claimed: an accepted application submission hands exactly two
\* messages to the mail transport after the record is saved: the confirmation
\* to the applicant's address, then the alert to the operator address.
C14_TwoNotificationsPerApplication ==
    [][(resp'.op = "submit-application" /\ resp'.code = 201)
       => outbox' = outbox \o
             << [to |-> normalizeEmail(resp'.body.email), kind |-> "application-received"],
                [to |-> OperatorAddress, kind |-> "new-application"] >>]_vars

\* C15 as claimed: an accepted contact submission hands exactly two messages
\* to the mail transport after the record is saved: the confirmation to the
\* submitter's address and the alert to the operator address.
C15_TwoNotificationsPerContact ==
    [][(resp'.op = "submit-contact" /\ resp'.code = 201)
       => /\ Len(outbox') = Len(outbox) + 2
          /\ \E i \in DOMAIN outbox' : i > Len(outbox) /\
                outbox'[i].to = normalizeEmail(resp'.body.email)
          /\ \E i \in DOMAIN outbox' : i > Len(outbox) /\
                outbox'[i].to = OperatorAddress]_vars

\* C16: a submission of an application or of a contact lead that passes every
\* check of its handler, and whose notifications all fail, is answered 201 with
\* the id of a record that the step has added to the store.
C16_FailedMailsKeepRecord ==
    [][/\ ( /\ resp'.op = "submit-application"
            /\ submitOutcome(resp'.body) = "ok"
            /\ resp'.mails = 0 )
          => ( /\ resp'.code = 201
               /\ \E a \in apps' \ apps : a.id = resp'.created )
       /\ ( /\ resp'.op = "submit-contact"
            /\ WellFormedContact(resp'.body)
            /\ ~existingContact(normalizeEmail(resp'.body.email))
            /\ resp'.mails = 0 )
          => ( /\ resp'.code = 201
               /\ \E c \in contacts' \ contacts : c.id = resp'.created )]_vars

\* C16 witness: an application and a contact lead are stored, nothing has
\* reached the mail transport, and the last submission was answered 201
C16_Witness ==
    /\ resp.op \in {"submit-application", "submit-contact"}
    /\ resp.code = 201
    /\ resp.mails = 0
    /\ outbox = <<>>
    /\ apps # {}
    /\ contacts # {}

----------------------------------------------------------------------------
(* Claims about the values of the administrator-only fields *)

\* every stored application has one of the five statuses of the schema
StatusInEnum == \A a \in apps : a.status \in AppStatuses

\* an authenticated update whose status is none of the five is answered 400,
\* changes no record and attempts no notification
BadStatusRefused ==
    ( /\ resp'.op \in UpdateOps
      /\ auth(resp'.token) # NoAdmin
      /\ present(resp'.status)
      /\ resp'.status \notin AppStatuses )
    => ( /\ resp'.code = 400
         /\ apps' = apps
         /\ outbox' = outbox
         /\ resp'.attempts = 0 )

C18_AdminFieldsOnlyByAdmin ==
    [][/\ (resp'.op = "submit-application" /\ resp'.code = 201)
          => \A a \in apps' \ apps :
                /\ a.status = "pending"
                /\ a.notes = NoValue
                /\ a.reviewedBy = NoValue
                /\ a.reviewedAt = NoTime
       /\ \A a \in apps : \A b \in apps' :
             ( /\ b.id = a.id
               /\ <<b.status, b.notes, b.reviewedBy, b.reviewedAt>> #
                  <<a.status, a.notes, a.reviewedBy, a.reviewedAt>> )
             => ( /\ resp'.op \in UpdateOps
                  /\ resp'.id = a.id
                  /\ auth(resp'.token) # NoAdmin )]_vars

\* C19 as claimed: a ContactLead created by a public submission starts with
\* status new and priority medium and with notes, assignedTo and followUpDate
\* unset, whatever the body holds; these fields of a stored lead change only in
\* an update request of an authenticated administrator.
C19_TriageFieldsOnlyByAdmin ==
    [][/\ (resp'.op = "submit-contact" /\ resp'.code = 201)
          => \A c \in contacts' \ contacts :
                /\ c.status = "new"
                /\ c.priority = "medium"
                /\ c.notes = NoValue
                /\ c.assignedTo = NoValue
                /\ c.followUpDate = NoTime
       /\ \A c \in contacts : \A d \in contacts' :
             ( /\ d.id = c.id
               /\ d # c )
             => ( /\ resp'.op = "update-contact"
                  /\ auth(resp'.token) # NoAdmin )]_vars

----------------------------------------------------------------------------
(* Claims about administrator accounts (under SpecAdmin) *)

\* C20: a create-account request that passes validation, made by an
\* authenticated administrator whose role is not super-admin, is answered 403
\* and creates no account; every step that adds an AdminAccount is a
\* create-account request of an authenticated super-admin.
C20_OnlySuperAdminCreates ==
    [][/\ ( /\ resp'.op = "create-admin"
            /\ auth(resp'.token) # NoAdmin
            /\ adminValidation(resp'.body)
            /\ auth(resp'.token).role # "super-admin" )
          => ( /\ resp'.code = 403
               /\ admins' = admins )
       /\ (DOMAIN admins' # DOMAIN admins)
          => ( /\ resp'.op = "create-admin"
               /\ auth(resp'.token).role = "super-admin" )]_vars

\* C20 witness: an administrator of role admin, whose account a super-admin
\* created, has asked for a new account and was answered 403
C20_Witness ==
    /\ resp.op = "create-admin"
    /\ resp.code = 403
    /\ auth(resp.token).role = "admin"
    /\ resp.token.id # "a1"
    /\ ~existingAdmin(resp.body.username, normalizeEmail(resp.body.email))

\* no two AdminAccounts share a username or an e-mail address
UniqueIdentity ==
    \A i, j \in DOMAIN admins :
        i # j => ( /\ admins[i].username # admins[j].username
                   /\ admins[i].email # admins[j].email )

\* a validated create request of a super-admin whose username is an account's
\* username, or whose e-mail address is an account's but for letter case, is
\* answered 400 with the duplicate error and creates no account
DuplicateRefused ==
    ( /\ resp'.op = "create-admin"
      /\ auth(resp'.token).role = "super-admin"
      /\ adminValidation(resp'.body)
      /\ \E id \in DOMAIN admins :
            \/ admins[id].username = resp'.body.username
            \/ admins[id].email = normalizeEmail(resp'.body.email) )
    => ( /\ resp'.code = 400
         /\ resp'.error = "Admin with this username or email already exists"
         /\ admins' = admins )

----------------------------------------------------------------------------
(* Claims about the bootstrap step (under SpecBoot) *)

\* the accounts with the identity of the default administrator
Defaults == {id \in DOMAIN admins : admins[id].username = "admin"}

\* C22: a bootstrap run (server start-up or seed script) adds the default
\* account only when the store holds no account, and adds nothing else; the
\* store never holds more than one default account, and holds exactly one,
\* a super-admin, after any bootstrap run and ever after.
C22_BootstrapOnce ==
    /\ [](Cardinality(Defaults) <= 1)
    /\ []((resp.op = "bootstrap" \/ DOMAIN admins # {}) =>
            \E id \in DOMAIN admins :
                /\ Defaults = {id}
                /\ admins[id].role = "super-admin")
    /\ [][resp'.op = "bootstrap" =>
            IF DOMAIN admins = {}
            THEN resp'.created /\ Cardinality(DOMAIN admins') = 1
            ELSE ~resp'.created /\ admins' = admins]_vars

\* C22 witness: a bootstrap run has just found the store holding the default
\* account and another account, and has left it alone
C22_Witness ==
    /\ resp.op = "bootstrap"
    /\ ~resp.created
    /\ Cardinality(Defaults) = 1
    /\ Cardinality(DOMAIN admins) = 2

----------------------------------------------------------------------------
(* Claims about the contact statistics (under SpecStats) *)

\* C23 as claimed: a GET /api/contact/stats request that carries the token of
\* a successful login is answered 200 with the total number of contacts.
C23_ContactStatsServed ==
    ( /\ resp.op = "get-contact"
      /\ resp.path = "/stats"
      /\ auth(resp.token) # NoAdmin )
    => ( /\ resp.code = 200
         /\ resp.total = Cardinality(contacts) )

\* the statistics are served under /api/contact/admin/stats
C23_StatsUnderAdminPath ==
    /\ resp.op = "get-contact"
    /\ resp.path = "/admin/stats"
    /\ resp.code = 200
    /\ resp.total = 2

----------------------------------------------------------------------------
(* Claims about the effects of one login request (under Spec) *)

\* C28: a login request changes the security counters at most once.  A wrong
\* password on an unlocked active account makes exactly one failed-attempt
\* increment (or sets the lockout when the increment reaches the threshold); a
\* correct password makes exactly one reset; a request refused for an unknown
\* username, a locked account or a deactivated account changes no field of
\* any account.
C28_CountersChangeOnce ==
    [][( /\ resp'.op \in LoginOps
         /\ resp'.password # "" )
       => LET id == findOne(resp'.username)
              a == findById(id)
          IN  IF id = NoValue \/ isLocked(a) \/ ~a.isActive
              THEN admins' = admins
              ELSE IF comparePassword(a, resp'.password)
              THEN /\ admins' = [admins EXCEPT ![id] = resetLoginAttempts(a)]
                   /\ admins'[id].failedAttempts = 0
                   /\ admins'[id].lockedUntil = NoTime
              ELSE /\ admins' = [admins EXCEPT ![id] = incLoginAttempts(a)]
                   /\ IF a.failedAttempts + 1 >= MaxLoginAttempts
                      THEN admins'[id].lockedUntil = clock + LockTime
                      ELSE /\ admins'[id].failedAttempts = a.failedAttempts + 1
                           /\ admins'[id].lockedUntil = a.lockedUntil]_vars

\* C28 witness: the third wrong password in a row has just been counted, and
\* the counter stands at three
C28_Witness ==
    /\ resp.op \in LoginOps
    /\ resp.code = 401
    /\ resp.before.failedAttempts = 2
    /\ ~isLocked(resp.before)
    /\ resp.before.isActive
    /\ admins["a1"].failedAttempts = 3

\* C29 as claimed: whenever a request is answered with a signed session token,
\* the supplied password matches the stored hash of an AdminAccount that is
\* neither locked nor inactive.
C29_TokenOnlyAfterPasswordCheck ==
    [][( /\ resp'.op \in LoginOps \cup {"test-login"}
         /\ resp'.token # NoToken )
       => LET a == findById(findOne(resp'.username))
          IN  /\ a # NoAdmin
              /\ comparePassword(a, resp'.password)
              /\ ~isLocked(a)
              /\ a.isActive]_vars

----------------------------------------------------------------------------
(* Claims about login requests in flight together (under SpecRace) *)

\* C24 as claimed: no login request completes successfully (is issued a token,
\* clears the lockout) at a moment when the account's lockedUntil is in the
\* future, also when several login requests for the account are in flight.
C24_NoSuccessWhileLocked ==
    [][( /\ resp'.op \in LoginOps
         /\ resp'.code = 200 )
       => ~isLocked(accountOf(resp'))]_vars

\* no lockout since the last reset: the counter has counted every failure
AllCounted ==
    \A id \in DOMAIN admins :
        admins[id].lockedUntil = NoTime
            => admins[id].failedAttempts = Len(failTimes[id])

\* a failed login that completes adds one to the stored counter or sets the lockout
CountedOnce ==
    ( /\ resp'.op \in LoginOps
      /\ resp'.code = 401
      /\ resp'.before # NoAdmin
      /\ admins' # admins )
    => LET id == findOne(resp'.username)
       IN  \/ admins'[id].failedAttempts = admins[id].failedAttempts + 1
           \/ admins'[id].lockedUntil = clock + LockTime

\* C25: two wrong-password logins for the same account that run concurrently
\* both count: under every interleaving the stored counter reflects every
\* failed login since the last reset unless the lockout has been set, and each
\* completing failure adds one to the stored counter (or sets the lockout)
\* whatever the copy it read.
C25_NoLostIncrement == []AllCounted /\ [][CountedOnce]_vars

\* C25 witness: a failed login that had read the counter at 0 has completed
\* after another one, and the stored counter stands at 2
C25_Witness ==
    /\ resp.op \in LoginOps
    /\ resp.code = 401
    /\ resp.before # NoAdmin
    /\ resp.before.failedAttempts = 0
    /\ admins["a1"].failedAttempts = 2
    /\ admins["a1"].lockedUntil = NoTime
    /\ \A s \in Slots : inflight[s] = IdleReq

----------------------------------------------------------------------------
(* Claims about submissions in flight together (under SpecIntake) *)

\* C26 as claimed: under every interleaving of concurrent application
\* submissions there is at most one ApplicationRecord for each
\* (jobId, email) pair.
C26_OnePerPairConcurrently ==
    \A a, b \in apps : (a.jobId = b.jobId /\ a.email = b.email) => a = b

\* C30 as claimed: under every interleaving of submissions with job
\* deletions, a submission that checked the job before a concurrent delete of
\* that job leaves no record referencing the deleted job: every record a step
\* adds references a JobPosting that exists.
C30_SavedRecordHasJob ==
    [][\A a \in apps' \ apps : a.jobId \in DOMAIN jobs']_vars

----------------------------------------------------------------------------
(* Claims about the notifications of a request (under SpecNotify) *)

OneAttemptEach ==
    \A s \in Slots :
        inflight[s].pc \in {"saved", "awaiting-mail"}
            => inflight[s].attempts + Len(inflight[s].mails) = inflight[s].triggers

\* a handler that has written does get to its reply
ReplyReached ==
    \A s \in Slots : (inflight[s].pc = "saved") ~> (inflight[s] = IdleReq)

\* what the program does instead: the reply comes after the notification
\* blocks, each block is run once and is left through its catch, and the
\* reply is reached
C27_ReplyAfterBlocks == []OneAttemptEach /\ ReplyReached

====
